---- MODULE Spec2Model ----
(***************************************************************************)
(* Model of @rustd/core: the Option (Some / None) and Result (Ok / Err)    *)
(* containers of libs/core/src/lib/Option.ts and Result.ts.                *)
(*                                                                         *)
(* Containers are JavaScript objects, so they live in a heap indexed by    *)
(* references.  An object has its own fields `_type` and `_value` and a    *)
(* prototype chain; `cls` is the class whose prototype the chain reaches,  *)
(* i.e. the class whose methods a call on the object dispatches to.        *)
(* Object.setPrototypeOf(this, new None()) / (this, new Some(v)) changes   *)
(* `cls` and nothing else: the own fields are assigned separately.         *)
(***************************************************************************)
EXTENDS Integers, Sequences, FiniteSets, TLC

(* ------------------------------ bounds --------------------------------- *)
MaxRefs == 4
MaxVal == 2

(* --------------------------- program constants ------------------------- *)
OptionType_Some == 0
OptionType_None == 1
ResultType_Ok == 0
ResultType_Err == 1

(* ---------------------------- JavaScript values ------------------------ *)
Num(n) == [t |-> "number", n |-> n, s |-> ""]
Str(s) == [t |-> "string", n |-> 0, s |-> s]
Bool(b) == [t |-> "boolean", n |-> IF b THEN 1 ELSE 0, s |-> ""]
ObjCode(c) == [t |-> "object", n |-> c, s |-> "code"]
ErrorOf(m) == [t |-> "Error", n |-> 0, s |-> m]
Undefined == [t |-> "undefined", n |-> 0, s |-> ""]

\* `${value}` : the template-literal (ToString) conversion of a value
TemplateStr(v) ==
  CASE v.t = "number" -> ToString(v.n)
    [] v.t = "string" -> v.s
    [] v.t = "boolean" -> (IF v.n = 1 THEN "true" ELSE "false")
    [] v.t = "object" -> "[object Object]"
    [] v.t = "Error" -> "Error: " \o v.s
    [] OTHER -> "undefined"

Nums == {Num(n) : n \in 1..MaxVal}
\* payloads stored in Option containers
OptVals == Nums
\* payloads of Ok and of Err
OkVals == Nums
ErrVals == {Str("error"), ObjCode(430), ObjCode(431), ErrorOf("nested")}
\* messages handed to expect / expectErr
StrMessages == {Str("error message"), Str("")}
Messages == StrMessages \cup {ErrorOf("custom")}

\* JSON.stringify(value); undefined stays undefined and prints as such
JSONStringify(v) ==
  CASE v.t = "number" -> ToString(v.n)
    [] v.t = "string" -> "\"" \o v.s \o "\""
    [] v.t = "boolean" -> (IF v.n = 1 THEN "true" ELSE "false")
    [] v.t = "object" -> "{\"" \o v.s \o "\":" \o ToString(v.n) \o "}"
    [] v.t = "Error" -> "{}"
    [] OTHER -> "undefined"

\* callbacks: predicates by name, thunks by the value they yield
Preds == {"isEven", "always", "never"}
ApplyPred(p, v) ==
  CASE p = "isEven" -> (v.t = "number" /\ v.n % 2 = 0)
    [] p = "always" -> TRUE
    [] OTHER -> FALSE

\* mapping callbacks on a Success / Present payload:
\*   next = v => typeof v === 'number' ? v % MaxVal + 1 : 1,   one = () => 1
Mappers == {"next", "one"}
ApplyMap(f, v) ==
  IF f = "next" /\ v.t = "number" THEN Num((v.n % MaxVal) + 1) ELSE Num(1)

\* mapping callbacks on a Failure payload:
\*   code = e => e.code,   text = e => `${e}`
ErrMappers == {"code", "text"}
ApplyErrMap(f, e) ==
  IF f = "code"
    THEN (IF e.t = "object" THEN Num(e.n) ELSE Undefined)
    ELSE Str(TemplateStr(e))

(* --------------------------------- heap -------------------------------- *)
Refs == 1..MaxRefs
NoRef == 0
FreeObj == [cls |-> "free", type |-> -1, value |-> Undefined]

\* outcome of a call: a returned value, a returned reference, or a throw
NoRet == [kind |-> "none", val |-> Undefined, ref |-> NoRef]
RetVal(v) == [kind |-> "value", val |-> v, ref |-> NoRef]
RetRef(r) == [kind |-> "ref", val |-> Undefined, ref |-> r]
Throw(v) == [kind |-> "throw", val |-> v, ref |-> NoRef]

\* result of running a method: new heap, outcome, number of callback calls,
\* and the argument an inspecting callback was called with (NotSeen if none)
NotSeen == [t |-> "none", n |-> 0, s |-> ""]
Out(h, ret, calls) == [h |-> h, ret |-> ret, calls |-> calls, seen |-> NotSeen]
OutSeen(h, ret, calls, seen) == [h |-> h, ret |-> ret, calls |-> calls, seen |-> seen]

Alloc(h) == CHOOSE r \in Refs : h[r].cls = "free" /\ \A q \in Refs : h[q].cls = "free" => r <= q
CanAlloc(h) == \E r \in Refs : h[r].cls = "free"

\* new C(...) for an object given by its fields
New(h, obj) == [h EXCEPT ![Alloc(h)] = obj]

\* new Some(value) / new None() : constructor stores the own fields
NewSome(h, v) == [h EXCEPT ![Alloc(h)] = [cls |-> "Some", type |-> OptionType_Some, value |-> v]]
NewNone(h) == [h EXCEPT ![Alloc(h)] = [cls |-> "None", type |-> OptionType_None, value |-> Undefined]]

(* ------------------------- Option: class Some -------------------------- *)
ObjNone == [cls |-> "None", type |-> OptionType_None, value |-> Undefined]
ObjSome(v) == [cls |-> "Some", type |-> OptionType_Some, value |-> v]

Some_isSome(h, this) == Out(h, RetVal(Bool(TRUE)), 0)
Some_isNone(h, this) == Out(h, RetVal(Bool(FALSE)), 0)
Some_unwrap(h, this) == Out(h, RetVal(h[this].value), 0)
Some_unwrapOr(h, this, def) == Out(h, RetVal(h[this].value), 0)
Some_unwrapOrElse(h, this, def) == Out(h, RetVal(h[this].value), 0)

\* return (this._value = value)
Some_insert(h, this, value) ==
  Out([h EXCEPT ![this].value = value], RetVal(value), 0)

\* getOrInsert() that overwrites a present payload
Some_getOrInsert_overwrites(h, this, def) ==
  Out([h EXCEPT ![this].value = def], RetVal(def), 0)

Some_getOrInsert(h, this, def) == Out(h, RetVal(h[this].value), 0)
Some_getOrInsertWith(h, this, def) == Out(h, RetVal(h[this].value), 0)

\* take() that leaves the prototype of the receiver in place
Some_take_keepsPrototype(h, this) ==
  LET old_value == h[this].value
      h1 == [h EXCEPT ![this] = [cls |-> "Some", type |-> OptionType_None,
                                 value |-> Undefined]]
  IN  Out(NewSome(h1, old_value), RetRef(Alloc(h1)), 0)

\* take() that does not assign _type
Some_take_staleType(h, this) ==
  LET old_value == h[this].value
      h1 == [h EXCEPT ![this] = [cls |-> "None", type |-> h[this].type,
                                 value |-> Undefined]]
  IN  Out(NewSome(h1, old_value), RetRef(Alloc(h1)), 0)

\* setPrototypeOf(this, new None()); _type = None; _value = undefined;
\* return new Some(old_value)
Some_take(h, this) ==
  LET old_value == h[this].value
      h1 == [h EXCEPT ![this] = [cls |-> "None", type |-> OptionType_None,
                                 value |-> Undefined]]
  IN  Out(NewSome(h1, old_value), RetRef(Alloc(h1)), 0)

\* takeIf() that takes whatever the predicate says
Some_takeIf_ignoresPredicate(h, this, predicate) ==
  [Some_take(h, this) EXCEPT !.calls = 1]

Some_takeIf(h, this, predicate) ==
  IF ApplyPred(predicate, h[this].value)
    THEN [Some_take(h, this) EXCEPT !.calls = 1]
    ELSE Out(NewNone(h), RetRef(Alloc(h)), 1)

\* replace() that returns the new value instead of the old one
Some_replace_returnsNew(h, this, value) ==
  LET h1 == [h EXCEPT ![this].value = value]
  IN  Out(NewSome(h1, value), RetRef(Alloc(h1)), 0)

\* replace() that hands back the old value but does not store the new one
Some_replace_keepsOld(h, this, value) ==
  Out(NewSome(h, h[this].value), RetRef(Alloc(h)), 0)

Some_replace(h, this, value) ==
  LET old_value == h[this].value
      h1 == [h EXCEPT ![this].value = value]
  IN  Out(NewSome(h1, old_value), RetRef(Alloc(h1)), 0)

(* ------------------------- Option: class None -------------------------- *)
None_isSome(h, this) == Out(h, RetVal(Bool(FALSE)), 0)
None_isNone(h, this) == Out(h, RetVal(Bool(TRUE)), 0)
\* the fixed message of None.unwrap (the source quotes unwrap() and None)
UnwrapNoneMessage == "called unwrap() on a None value"
\* unwrap() that returns the (undefined) field instead of throwing
None_unwrap_returnsField(h, this) == Out(h, RetVal(h[this].value), 0)

None_unwrap(h, this) == Out(h, Throw(ErrorOf(UnwrapNoneMessage)), 0)
\* unwrapOr() that returns the (undefined) field instead of the default
None_unwrapOr_returnsField(h, this, def) == Out(h, RetVal(h[this].value), 0)

None_unwrapOr(h, this, def) == Out(h, RetVal(def), 0)
None_unwrapOrElse(h, this, def) == Out(h, RetVal(def), 1)

\* insert() that assigns the fields but leaves the prototype in place
None_insert_keepsPrototype(h, this, value) ==
  LET h1 == [h EXCEPT ![this] = [cls |-> "None", type |-> OptionType_Some,
                                 value |-> value]]
  IN  Out(h1, RetVal(h1[this].value), 0)

\* setPrototypeOf(this, new Some(value)); _type = Some; _value = value;
\* return this._value
None_insert(h, this, value) ==
  LET h1 == [h EXCEPT ![this] = [cls |-> "Some", type |-> OptionType_Some,
                                 value |-> value]]
  IN  Out(h1, RetVal(h1[this].value), 0)

None_getOrInsert(h, this, def) == None_insert(h, this, def)
None_getOrInsertWith(h, this, def) ==
  [None_insert(h, this, def) EXCEPT !.calls = 1]

None_take(h, this) == Out(h, RetRef(this), 0)
None_takeIf(h, this, predicate) == Out(h, RetRef(this), 0)

\* this.insert(value); return new None()
None_replace(h, this, value) ==
  LET h1 == None_insert(h, this, value).h
  IN  Out(NewNone(h1), RetRef(Alloc(h1)), 0)

(* ------------------ Option: dispatch through the prototype ------------- *)
IsSomeCls(h, this) == h[this].cls = "Some"

\* get type() { return this._type }
type(h, this) == Out(h, RetVal(Num(h[this].type)), 0)
isSome(h, this) == IF IsSomeCls(h, this) THEN Some_isSome(h, this) ELSE None_isSome(h, this)
isNone(h, this) == IF IsSomeCls(h, this) THEN Some_isNone(h, this) ELSE None_isNone(h, this)
unwrap(h, this) == IF IsSomeCls(h, this) THEN Some_unwrap(h, this) ELSE None_unwrap(h, this)
unwrapOr(h, this, def) ==
  IF IsSomeCls(h, this) THEN Some_unwrapOr(h, this, def) ELSE None_unwrapOr(h, this, def)
unwrapOrElse(h, this, def) ==
  IF IsSomeCls(h, this) THEN Some_unwrapOrElse(h, this, def) ELSE None_unwrapOrElse(h, this, def)
insert(h, this, value) ==
  IF IsSomeCls(h, this) THEN Some_insert(h, this, value) ELSE None_insert(h, this, value)
getOrInsert(h, this, def) ==
  IF IsSomeCls(h, this) THEN Some_getOrInsert(h, this, def) ELSE None_getOrInsert(h, this, def)
getOrInsertWith(h, this, def) ==
  IF IsSomeCls(h, this) THEN Some_getOrInsertWith(h, this, def)
                        ELSE None_getOrInsertWith(h, this, def)
take(h, this) == IF IsSomeCls(h, this) THEN Some_take(h, this) ELSE None_take(h, this)
takeIf(h, this, predicate) ==
  IF IsSomeCls(h, this) THEN Some_takeIf(h, this, predicate)
                        ELSE None_takeIf(h, this, predicate)
replace(h, this, value) ==
  IF IsSomeCls(h, this) THEN Some_replace(h, this, value) ELSE None_replace(h, this, value)

(* --------------------------- Result: class Ok -------------------------- *)
ObjOk(v) == [cls |-> "Ok", type |-> ResultType_Ok, value |-> v]
ObjErr(e) == [cls |-> "Err", type |-> ResultType_Err, value |-> e]

Ok_isOk(h, this) == Out(h, RetVal(Bool(TRUE)), 0)
Ok_isErr(h, this) == Out(h, RetVal(Bool(FALSE)), 0)
Ok_unwrap(h, this) == Out(h, RetVal(h[this].value), 0)
Ok_unwrapOr(h, this, def) == Out(h, RetVal(h[this].value), 0)
Ok_unwrapOrElse(h, this, val) == Out(h, RetVal(h[this].value), 0)
Ok_expect(h, this, message) == Out(h, RetVal(h[this].value), 0)
\* throw new Error(`${message}: ${this._value}`)
Ok_expectErr(h, this, message) ==
  Out(h, Throw(ErrorOf(TemplateStr(message) \o ": " \o TemplateStr(h[this].value))), 0)
\* throw new Error(`${this._value}`)
Ok_unwrapErr(h, this) == Out(h, Throw(ErrorOf(TemplateStr(h[this].value))), 0)

(* --------------------------- Result: class Err ------------------------- *)
Err_isOk(h, this) == Out(h, RetVal(Bool(FALSE)), 0)
Err_isErr(h, this) == Out(h, RetVal(Bool(TRUE)), 0)
\* throw new Error(`${this._value}`)
Err_unwrap(h, this) == Out(h, Throw(ErrorOf(TemplateStr(h[this].value))), 0)
Err_unwrapOr(h, this, def) == Out(h, RetVal(def), 0)
\* return val(this._value) : the callback yields val
Err_unwrapOrElse(h, this, val) == Out(h, RetVal(val), 1)
\* expect() that throws the message without the payload
Err_expect_messageOnly(h, this, message) ==
  IF message.t = "string"
    THEN Out(h, Throw(ErrorOf(TemplateStr(message))), 0)
    ELSE Out(h, Throw(message), 0)

\* a string message is prefixed to the payload; an Error is thrown as it is
Err_expect(h, this, message) ==
  IF message.t = "string"
    THEN Out(h, Throw(ErrorOf(TemplateStr(message) \o ": " \o TemplateStr(h[this].value))), 0)
    ELSE Out(h, Throw(message), 0)
Err_expectErr(h, this, message) == Out(h, RetVal(h[this].value), 0)
Err_unwrapErr(h, this) == Out(h, RetVal(h[this].value), 0)

(* ------------------ Result: dispatch through the prototype ------------- *)
IsOkCls(h, this) == h[this].cls = "Ok"

isOk(h, this) == IF IsOkCls(h, this) THEN Ok_isOk(h, this) ELSE Err_isOk(h, this)
isErr(h, this) == IF IsOkCls(h, this) THEN Ok_isErr(h, this) ELSE Err_isErr(h, this)
Result_unwrap(h, this) == IF IsOkCls(h, this) THEN Ok_unwrap(h, this) ELSE Err_unwrap(h, this)
Result_unwrapOr(h, this, def) ==
  IF IsOkCls(h, this) THEN Ok_unwrapOr(h, this, def) ELSE Err_unwrapOr(h, this, def)
Result_unwrapOrElse(h, this, val) ==
  IF IsOkCls(h, this) THEN Ok_unwrapOrElse(h, this, val) ELSE Err_unwrapOrElse(h, this, val)
expect(h, this, message) ==
  IF IsOkCls(h, this) THEN Ok_expect(h, this, message) ELSE Err_expect(h, this, message)
expectErr(h, this, message) ==
  IF IsOkCls(h, this) THEN Ok_expectErr(h, this, message) ELSE Err_expectErr(h, this, message)
unwrapErr(h, this) == IF IsOkCls(h, this) THEN Ok_unwrapErr(h, this) ELSE Err_unwrapErr(h, this)

(* -------------------- Option combinators: class Some ------------------- *)
\* callbacks that build an Option from a payload:
\*   someNext = v => new Some(next(v)),   none = () => new None()
OptMakers == {"someNext", "none"}
MadeOption(f, v) == IF f = "someNext" THEN ObjSome(ApplyMap("next", v)) ELSE ObjNone
\* the Options a caller can construct
OptionObjs == {ObjNone} \cup {ObjSome(v) : v \in OptVals}

Some_isSomeAnd(h, this, predicate) ==
  Out(h, RetVal(Bool(ApplyPred(predicate, h[this].value))), 1)
Some_expect(h, this, message) == Out(h, RetVal(h[this].value), 0)
Some_map(h, this, val) ==
  Out(New(h, ObjSome(ApplyMap(val, h[this].value))), RetRef(Alloc(h)), 1)
Some_mapOr(h, this, def, val) == Out(h, RetVal(ApplyMap(val, h[this].value)), 1)
Some_mapOrElse(h, this, def, val) == Out(h, RetVal(ApplyMap(val, h[this].value)), 1)
Some_okOr(h, this, err) == Out(New(h, ObjOk(h[this].value)), RetRef(Alloc(h)), 0)
Some_okOrElse(h, this, err) == Out(New(h, ObjOk(h[this].value)), RetRef(Alloc(h)), 0)

\* and() that returns the receiver instead of the argument
Some_and_returnsThis(h, this, optb) == Out(h, RetRef(this), 0)

Some_and(h, this, optb) == Out(h, RetRef(optb), 0)
Some_andThen(h, this, val) ==
  Out(New(h, MadeOption(val, h[this].value)), RetRef(Alloc(h)), 1)

\* filter() that mutates: implemented as a take() when the predicate holds
Some_filter_takes(h, this, predicate) ==
  IF ApplyPred(predicate, h[this].value)
    THEN [Some_take(h, this) EXCEPT !.calls = 1]
    ELSE Out(New(h, ObjNone), RetRef(Alloc(h)), 1)

\* filter() that keeps the payload whatever the predicate says
Some_filter_keepsAlways(h, this, predicate) ==
  Out(New(h, ObjSome(h[this].value)), RetRef(Alloc(h)), 1)

\* return predicate(this._value) ? new Some(this._value) : new None()
Some_filter(h, this, predicate) ==
  IF ApplyPred(predicate, h[this].value)
    THEN Out(New(h, ObjSome(h[this].value)), RetRef(Alloc(h)), 1)
    ELSE Out(New(h, ObjNone), RetRef(Alloc(h)), 1)

Some_or(h, this, optb) == Out(h, RetRef(this), 0)
Some_orElse(h, this, def) == Out(h, RetRef(this), 0)

\* xor() that never looks at the argument
Some_xor_ignoresOther(h, this, optb) == Out(h, RetRef(this), 0)

\* if (optb.isNone()) return this; return new None()
Some_xor(h, this, optb) ==
  IF isNone(h, optb).ret = RetVal(Bool(TRUE))
    THEN Out(h, RetRef(this), 0)
    ELSE Out(New(h, ObjNone), RetRef(Alloc(h)), 0)

\* callback(this._value); return this
Some_inspect(h, this, callback) == OutSeen(h, RetRef(this), 1, h[this].value)
Some_toString(h, this) ==
  Out(h, RetVal(Str("Some(" \o JSONStringify(h[this].value) \o ")")), 0)

(* -------------------- Option combinators: class None ------------------- *)
None_isSomeAnd(h, this, predicate) == Out(h, RetVal(Bool(FALSE)), 0)
\* throw message
None_expect(h, this, message) == Out(h, Throw(message), 0)
None_map(h, this, val) == Out(New(h, ObjNone), RetRef(Alloc(h)), 0)
None_mapOr(h, this, def, val) == Out(h, RetVal(def), 0)
\* return def_callback() : the callback yields def
None_mapOrElse(h, this, def, val) == Out(h, RetVal(def), 1)

\* okOr() that wraps the error as a success
None_okOr_asOk(h, this, err) == Out(New(h, ObjOk(err)), RetRef(Alloc(h)), 0)

None_okOr(h, this, err) == Out(New(h, ObjErr(err)), RetRef(Alloc(h)), 0)
\* return new Err(err()) : the callback yields err
None_okOrElse(h, this, err) == Out(New(h, ObjErr(err)), RetRef(Alloc(h)), 1)
None_and(h, this, optb) == Out(New(h, ObjNone), RetRef(Alloc(h)), 0)
None_andThen(h, this, val) == Out(New(h, ObjNone), RetRef(Alloc(h)), 0)
None_filter(h, this, predicate) == Out(h, RetRef(this), 0)
None_or(h, this, optb) == Out(h, RetRef(optb), 0)
\* return callback() : the callback constructs the Option `made`
None_orElse(h, this, made) == Out(New(h, made), RetRef(Alloc(h)), 1)
\* if (optb.isSome()) return optb; return this
None_xor(h, this, optb) ==
  IF isSome(h, optb).ret = RetVal(Bool(TRUE))
    THEN Out(h, RetRef(optb), 0)
    ELSE Out(h, RetRef(this), 0)
None_inspect(h, this, callback) == Out(h, RetRef(this), 0)
None_toString(h, this) == Out(h, RetVal(Str("None")), 0)

(* ------------- Option combinators: dispatch through the prototype ------ *)
isSomeAnd(h, this, predicate) ==
  IF IsSomeCls(h, this) THEN Some_isSomeAnd(h, this, predicate)
                        ELSE None_isSomeAnd(h, this, predicate)
Option_expect(h, this, message) ==
  IF IsSomeCls(h, this) THEN Some_expect(h, this, message) ELSE None_expect(h, this, message)
Option_map(h, this, val) ==
  IF IsSomeCls(h, this) THEN Some_map(h, this, val) ELSE None_map(h, this, val)
Option_mapOr(h, this, def, val) ==
  IF IsSomeCls(h, this) THEN Some_mapOr(h, this, def, val) ELSE None_mapOr(h, this, def, val)
Option_mapOrElse(h, this, def, val) ==
  IF IsSomeCls(h, this) THEN Some_mapOrElse(h, this, def, val)
                        ELSE None_mapOrElse(h, this, def, val)
okOr(h, this, err) ==
  IF IsSomeCls(h, this) THEN Some_okOr(h, this, err) ELSE None_okOr(h, this, err)
okOrElse(h, this, err) ==
  IF IsSomeCls(h, this) THEN Some_okOrElse(h, this, err) ELSE None_okOrElse(h, this, err)
Option_and(h, this, optb) ==
  IF IsSomeCls(h, this) THEN Some_and(h, this, optb) ELSE None_and(h, this, optb)
Option_andThen(h, this, val) ==
  IF IsSomeCls(h, this) THEN Some_andThen(h, this, val) ELSE None_andThen(h, this, val)
filter(h, this, predicate) ==
  IF IsSomeCls(h, this) THEN Some_filter(h, this, predicate) ELSE None_filter(h, this, predicate)
Option_or(h, this, optb) ==
  IF IsSomeCls(h, this) THEN Some_or(h, this, optb) ELSE None_or(h, this, optb)
orElse(h, this, made) ==
  IF IsSomeCls(h, this) THEN Some_orElse(h, this, made) ELSE None_orElse(h, this, made)
xor(h, this, optb) ==
  IF IsSomeCls(h, this) THEN Some_xor(h, this, optb) ELSE None_xor(h, this, optb)
Option_inspect(h, this, callback) ==
  IF IsSomeCls(h, this) THEN Some_inspect(h, this, callback) ELSE None_inspect(h, this, callback)
Option_toString(h, this) ==
  IF IsSomeCls(h, this) THEN Some_toString(h, this) ELSE None_toString(h, this)

(* ----------------------- Option: nullable payloads --------------------- *)
Null == [t |-> "null", n |-> 0, s |-> ""]
\* payloads that are null, undefined, falsy or ordinary
NullableVals == {Undefined, Null, Num(0), Str(""), Bool(FALSE), Num(1)}
\* static from(value): Some unless the value is undefined or null
Option_from(h, value) ==
  IF value.t # "undefined" /\ value.t # "null"
    THEN Out(NewSome(h, value), RetRef(Alloc(h)), 0)
    ELSE Out(NewNone(h), RetRef(Alloc(h)), 0)
\* if (typeof this._value !== 'undefined' || this._value !== null)
Some_flattenNullable(h, this) ==
  IF h[this].value.t # "undefined" \/ h[this].value.t # "null"
    THEN Out(NewSome(h, h[this].value), RetRef(Alloc(h)), 0)
    ELSE Out(NewNone(h), RetRef(Alloc(h)), 0)
None_flattenNullable(h, this) == Out(NewNone(h), RetRef(Alloc(h)), 0)
flattenNullable(h, this) ==
  IF IsSomeCls(h, this) THEN Some_flattenNullable(h, this) ELSE None_flattenNullable(h, this)

(* --------------------- Result combinators: class Ok -------------------- *)
\* callbacks that build a Result from a payload:
\*   okNext = v => new Ok(next(v)),   fail = () => new Err('error')
ResMakers == {"okNext", "fail"}
MadeResult(f, v) == IF f = "okNext" THEN ObjOk(ApplyMap("next", v)) ELSE ObjErr(Str("error"))
\* the Results a caller can construct
ResultObjs == {ObjOk(v) : v \in OkVals} \cup {ObjErr(e) : e \in ErrVals}

Ok_ok(h, this) == Out(New(h, ObjSome(h[this].value)), RetRef(Alloc(h)), 0)
Ok_err(h, this) == Out(New(h, ObjNone), RetRef(Alloc(h)), 0)
Ok_isOkAnd(h, this, predicate) ==
  Out(h, RetVal(Bool(ApplyPred(predicate, h[this].value))), 1)
Ok_isErrAnd(h, this, predicate) == Out(h, RetVal(Bool(FALSE)), 0)

\* map() that stores the mapped value in the receiver and returns it
Ok_map_inPlace(h, this, val) ==
  Out([h EXCEPT ![this].value = ApplyMap(val, h[this].value)], RetRef(this), 1)

Ok_map(h, this, val) ==
  Out(New(h, ObjOk(ApplyMap(val, h[this].value))), RetRef(Alloc(h)), 1)
Ok_mapOr(h, this, def, val) == Out(h, RetVal(ApplyMap(val, h[this].value)), 1)
Ok_mapOrElse(h, this, err, val) == Out(h, RetVal(ApplyMap(val, h[this].value)), 1)
Ok_mapErr(h, this, val) == Out(New(h, ObjOk(h[this].value)), RetRef(Alloc(h)), 0)
\* val(this._value); return this
Ok_inspect(h, this, val) == OutSeen(h, RetRef(this), 1, h[this].value)
Ok_inspectErr(h, this, val) == Out(h, RetRef(this), 0)
Ok_and(h, this, resb) == Out(h, RetRef(resb), 0)
Ok_andThen(h, this, resb) ==
  Out(New(h, MadeResult(resb, h[this].value)), RetRef(Alloc(h)), 1)
Ok_or(h, this, resb) == Out(New(h, ObjOk(h[this].value)), RetRef(Alloc(h)), 0)
Ok_toString(h, this) ==
  Out(h, RetVal(Str("Ok(" \o JSONStringify(h[this].value) \o ")")), 0)

(* --------------------- Result combinators: class Err ------------------- *)
\* ok() that turns the error into a present value
Err_ok_returnsSome(h, this) == Out(New(h, ObjSome(h[this].value)), RetRef(Alloc(h)), 0)

Err_ok(h, this) == Out(New(h, ObjNone), RetRef(Alloc(h)), 0)
Err_err(h, this) == Out(New(h, ObjSome(h[this].value)), RetRef(Alloc(h)), 0)
Err_isOkAnd(h, this, predicate) == Out(h, RetVal(Bool(FALSE)), 0)
Err_isErrAnd(h, this, predicate) ==
  Out(h, RetVal(Bool(ApplyPred(predicate, h[this].value))), 1)

\* map() that applies the callback to the error payload
Err_map_mapsError(h, this, val) ==
  Out(New(h, ObjErr(ApplyMap(val, h[this].value))), RetRef(Alloc(h)), 1)

Err_map(h, this, val) == Out(New(h, ObjErr(h[this].value)), RetRef(Alloc(h)), 0)
Err_mapOr(h, this, def, val) == Out(h, RetVal(def), 0)
\* return err(this._value)
Err_mapOrElse(h, this, err, val) == Out(h, RetVal(ApplyErrMap(err, h[this].value)), 1)

\* mapErr() that passes the error through unmapped
Err_mapErr_keepsError(h, this, val) ==
  Out(New(h, ObjErr(h[this].value)), RetRef(Alloc(h)), 0)

Err_mapErr(h, this, val) ==
  Out(New(h, ObjErr(ApplyErrMap(val, h[this].value))), RetRef(Alloc(h)), 1)

\* inspect() that runs the callback on the error payload
Err_inspect_callsBack(h, this, val) == OutSeen(h, RetRef(this), 1, h[this].value)

Err_inspect(h, this, val) == Out(h, RetRef(this), 0)
\* val(this._value); return this
Err_inspectErr(h, this, val) == OutSeen(h, RetRef(this), 1, h[this].value)
\* and() that forgets to short-circuit on a failure
Err_and_returnsOther(h, this, resb) == Out(h, RetRef(resb), 0)

Err_and(h, this, resb) == Out(New(h, ObjErr(h[this].value)), RetRef(Alloc(h)), 0)
Err_andThen(h, this, resb) == Out(New(h, ObjErr(h[this].value)), RetRef(Alloc(h)), 0)
Err_or(h, this, resb) == Out(h, RetRef(resb), 0)
Err_toString(h, this) ==
  Out(h, RetVal(Str("Err(" \o TemplateStr(h[this].value) \o ")")), 0)

(* ------------- Result combinators: dispatch through the prototype ------ *)
ok(h, this) == IF IsOkCls(h, this) THEN Ok_ok(h, this) ELSE Err_ok(h, this)
err(h, this) == IF IsOkCls(h, this) THEN Ok_err(h, this) ELSE Err_err(h, this)
isOkAnd(h, this, predicate) ==
  IF IsOkCls(h, this) THEN Ok_isOkAnd(h, this, predicate) ELSE Err_isOkAnd(h, this, predicate)
isErrAnd(h, this, predicate) ==
  IF IsOkCls(h, this) THEN Ok_isErrAnd(h, this, predicate) ELSE Err_isErrAnd(h, this, predicate)
Result_map(h, this, val) ==
  IF IsOkCls(h, this) THEN Ok_map(h, this, val) ELSE Err_map(h, this, val)
Result_mapOr(h, this, def, val) ==
  IF IsOkCls(h, this) THEN Ok_mapOr(h, this, def, val) ELSE Err_mapOr(h, this, def, val)
Result_mapOrElse(h, this, errFn, val) ==
  IF IsOkCls(h, this) THEN Ok_mapOrElse(h, this, errFn, val)
                      ELSE Err_mapOrElse(h, this, errFn, val)
mapErr(h, this, val) ==
  IF IsOkCls(h, this) THEN Ok_mapErr(h, this, val) ELSE Err_mapErr(h, this, val)
Result_inspect(h, this, val) ==
  IF IsOkCls(h, this) THEN Ok_inspect(h, this, val) ELSE Err_inspect(h, this, val)
inspectErr(h, this, val) ==
  IF IsOkCls(h, this) THEN Ok_inspectErr(h, this, val) ELSE Err_inspectErr(h, this, val)
Result_and(h, this, resb) ==
  IF IsOkCls(h, this) THEN Ok_and(h, this, resb) ELSE Err_and(h, this, resb)
Result_andThen(h, this, resb) ==
  IF IsOkCls(h, this) THEN Ok_andThen(h, this, resb) ELSE Err_andThen(h, this, resb)
Result_or(h, this, resb) ==
  IF IsOkCls(h, this) THEN Ok_or(h, this, resb) ELSE Err_or(h, this, resb)
Result_toString(h, this) ==
  IF IsOkCls(h, this) THEN Ok_toString(h, this) ELSE Err_toString(h, this)

\* for (const value of this.iter()) : the generator yields this.ok() and
\* ends; calls counts the loop iterations, the outcome is the element yielded
Result_iter(h, this) == [ok(h, this) EXCEPT !.calls = 1]

\* the generator object iter() returns, resumed by next() from position
\* `pos`: "start" runs the body up to `yield this.ok()`, "yielded" runs it
\* to its end; `done` is the done flag of the iterator result
GenPositions == {"start", "yielded", "done"}
\* generator that yields only for Ok (nothing for Err)
Result_iter_resume_skipsErr(h, this, pos) ==
  IF pos = "start" /\ IsOkCls(h, this)
    THEN [out |-> ok(h, this), pos |-> "yielded", done |-> FALSE]
    ELSE [out |-> Out(h, RetVal(Undefined), 0), pos |-> "done", done |-> TRUE]

\* generator that yields the conversion a second time
Result_iter_resume_yieldsTwice(h, this, pos) ==
  IF pos = "start"
    THEN [out |-> ok(h, this), pos |-> "yielded", done |-> FALSE]
    ELSE IF pos = "yielded"
      THEN [out |-> ok(h, this), pos |-> "done", done |-> FALSE]
      ELSE [out |-> Out(h, RetVal(Undefined), 0), pos |-> "done", done |-> TRUE]

Result_iter_resume(h, this, pos) ==
  IF pos = "start"
    THEN [out |-> ok(h, this), pos |-> "yielded", done |-> FALSE]
    ELSE [out |-> Out(h, RetVal(Undefined), 0), pos |-> "done", done |-> TRUE]

(* ------------- promises: settlement, reactions, microtasks ------------- *)
MaxProms == 5
\* what a promise settles with: a plain value or a Result object
PV(v) == [k |-> "val", v |-> v, o |-> FreeObj]
PR(obj) == [k |-> "res", v |-> Undefined, o |-> obj]
Pending == [st |-> "pending", val |-> PV(Undefined)]
\* a reaction handler: its code, the user function it closes over, and the
\* handle or continuation whose invocations it counts
Handler(name, fn, id) == [name |-> name, fn |-> fn, id |-> id]
ReactJob(hd, arg, dst) == [kind |-> "react", hd |-> hd, arg |-> arg, src |-> 0, dst |-> dst]
ThenableJob(src, dst) ==
  [kind |-> "thenable", hd |-> Handler("", "", 0), arg |-> PV(Undefined), src |-> src, dst |-> dst]
EmptyHeap == [q \in Refs |-> FreeObj]

\* new Promise: appended to the table, pending
NewPromise(w) == [w EXCEPT !.proms = Append(@, Pending)]
NextPromise(w) == Len(w.proms) + 1

\* src.then(onF, onR) with derived promise dst: a reaction while src is
\* pending, a microtask at once when src is settled
Then(w, src, dst, onF, onR) ==
  IF w.proms[src].st = "pending"
    THEN [w EXCEPT !.reacts = Append(@, [src |-> src, dst |-> dst, onF |-> onF, onR |-> onR])]
    ELSE [w EXCEPT !.jobs = Append(@,
            ReactJob(IF w.proms[src].st = "fulfilled" THEN onF ELSE onR, w.proms[src].val, dst))]

\* a promise settles once: its reactions become microtasks, in order
SettlePromise(w, p, st, val) ==
  IF w.proms[p].st # "pending" THEN w
  ELSE
    LET mine == SelectSeq(w.reacts, LAMBDA rc : rc.src = p)
        rest == SelectSeq(w.reacts, LAMBDA rc : rc.src # p)
        woken == [i \in 1..Len(mine) |->
                    ReactJob(IF st = "fulfilled" THEN mine[i].onF ELSE mine[i].onR,
                             val, mine[i].dst)]
    IN  [w EXCEPT !.proms[p] = [st |-> st, val |-> val],
                  !.reacts = rest,
                  !.jobs = @ \o woken]

\* (r) => r.mapErr(val).unwrap() applied to the Result object `obj`
MapErrUnwrap(obj, val) ==
  LET m == mapErr(New(EmptyHeap, obj), Alloc(EmptyHeap), val)
      u == Result_unwrap(m.h, m.ret.ref)
  IN  [ret |-> u.ret, calls |-> m.calls]

\* the body of a reaction handler run on `arg`: the world after it, and how
\* the derived promise settles (a return fulfils it, a throw rejects it)
RunHandler(w, hd, arg) ==
  CASE hd.name = "toOk" -> [w |-> w, st |-> "fulfilled", val |-> PR(ObjOk(arg.v))]
    [] hd.name = "toErr" -> [w |-> w, st |-> "fulfilled", val |-> PR(ObjErr(arg.v))]
    [] hd.name = "contOk" ->
         [w |-> [w EXCEPT !.conts[hd.id].calls = @ + 1, !.conts[hd.id].got = PR(ObjOk(arg.v))],
          st |-> "fulfilled", val |-> PR(ObjOk(arg.v))]
    [] hd.name = "contErr" ->
         [w |-> [w EXCEPT !.conts[hd.id].calls = @ + 1, !.conts[hd.id].got = PR(ObjErr(arg.v))],
          st |-> "fulfilled", val |-> PR(ObjErr(arg.v))]
    [] hd.name = "map" ->
         [w |-> [w EXCEPT !.handles[hd.id].ncalls = @ + 1],
          st |-> "fulfilled", val |-> PV(ApplyMap(hd.fn, arg.v))]
    [] hd.name = "mapErrUnwrap" ->
         LET mu == MapErrUnwrap(arg.o, hd.fn)
         IN  [w |-> [w EXCEPT !.handles[hd.id].ncalls = @ + mu.calls],
              st |-> IF mu.ret.kind = "throw" THEN "rejected" ELSE "fulfilled",
              val |-> PV(mu.ret.val)]
    [] hd.name = "adoptF" -> [w |-> w, st |-> "fulfilled", val |-> arg]
    [] OTHER -> [w |-> w, st |-> "rejected", val |-> arg]

\* run the first microtask
RunJob(w) ==
  LET j == Head(w.jobs)
      w1 == [w EXCEPT !.jobs = Tail(@)]
  IN  IF j.kind = "thenable"
        THEN Then(w1, j.src, j.dst, Handler("adoptF", "", 0), Handler("adoptR", "", 0))
        ELSE LET res == RunHandler(w1, j.hd, j.arg)
             IN  SettlePromise(res.w, j.dst, res.st, res.val)

(* ------------------------------ ResultAsync ---------------------------- *)
\* new ResultAsync(promise), made by `via` from handle `parent` with `fn`
Handle(promise, via, parent, fn) ==
  [promise |-> promise, via |-> via, parent |-> parent, fn |-> fn, ncalls |-> 0]

\* await() without the rejection handler
ResultAsync_await_noCatch(w, this) ==
  LET p2 == NextPromise(w)
      p3 == p2 + 1
      w1 == Then(NewPromise(w), w.handles[this].promise, p2,
                 Handler("toOk", "", 0), Handler("pass", "", 0))
      w2 == NewPromise(w1)
  IN  [w2 EXCEPT !.jobs = Append(@, ThenableJob(p2, p3)),
                 !.awaits = Append(@, [handle |-> this, promise |-> p3])]

\* async await(): return this._promise.then(v => new Ok(v), e => new Err(e));
\* the async function's own promise p3 is resolved with the derived promise
\* p2, which queues the job that makes p3 follow p2
ResultAsync_await(w, this) ==
  LET p2 == NextPromise(w)
      p3 == p2 + 1
      w1 == Then(NewPromise(w), w.handles[this].promise, p2,
                 Handler("toOk", "", 0), Handler("toErr", "", 0))
      w2 == NewPromise(w1)
  IN  [w2 EXCEPT !.jobs = Append(@, ThenableJob(p2, p3)),
                 !.awaits = Append(@, [handle |-> this, promise |-> p3])]

\* then(onfulfilled): the continuation receives new Ok(v) / new Err(e);
\* without a continuation the derived promise is fulfilled with the Result
ResultAsync_then(w, this, hasCont) ==
  LET p2 == NextPromise(w)
      c == Len(w.conts) + 1
      w1 == NewPromise(w)
  IN  IF hasCont
        THEN Then([w1 EXCEPT !.conts = Append(@, [handle |-> this, calls |-> 0,
                                                  got |-> PV(Undefined), promise |-> p2])],
                  w.handles[this].promise, p2,
                  Handler("contOk", "", c), Handler("contErr", "", c))
        ELSE Then([w1 EXCEPT !.awaits = Append(@, [handle |-> this, promise |-> p2])],
                  w.handles[this].promise, p2,
                  Handler("toOk", "", 0), Handler("toErr", "", 0))

\* map() that replaces the receiver's own promise
ResultAsync_map_inPlace(w, this, val) ==
  LET p2 == NextPromise(w)
      h2 == Len(w.handles) + 1
      w1 == [NewPromise(w) EXCEPT !.handles = Append(@, Handle(p2, "map", this, val))]
      w2 == Then(w1, w.handles[this].promise, p2, Handler("map", val, h2), Handler("pass", "", 0))
  IN  [w2 EXCEPT !.handles[this].promise = p2]

\* map(val): new ResultAsync(this._promise.then(val))
ResultAsync_map(w, this, val) ==
  LET p2 == NextPromise(w)
      h2 == Len(w.handles) + 1
      w1 == [NewPromise(w) EXCEPT !.handles = Append(@, Handle(p2, "map", this, val))]
  IN  Then(w1, w.handles[this].promise, p2, Handler("map", val, h2), Handler("pass", "", 0))

\* mapErrAsync(val):
\* new ResultAsync(this.await().then((r) => r.mapErr(val).unwrap()))
ResultAsync_mapErrAsync(w, this, val) ==
  LET w1 == ResultAsync_await(w, this)
      p3 == Len(w1.proms)
      p4 == p3 + 1
      h2 == Len(w.handles) + 1
      w2 == [NewPromise(w1) EXCEPT !.handles = Append(@, Handle(p4, "mapErrAsync", this, val))]
  IN  Then(w2, p3, p4, Handler("mapErrUnwrap", val, h2), Handler("pass", "", 0))

\* ResultAsync.from(promise) of a pending computation
NewBridge ==
  [proms |-> <<Pending>>, reacts |-> <<>>, jobs |-> <<>>,
   handles |-> <<Handle(1, "from", 0, "")>>, awaits |-> <<>>, conts |-> <<>>]

(* ------------------------------- state --------------------------------- *)
VARIABLES
  heap,     \* the objects, by reference
  x,        \* the caller's Option container
  y,        \* the container most recently returned to the caller (or NoRef)
  r,        \* the caller's Result
  checked,  \* the Option / Result whose isSome() / isOk() returned true and
            \* whose state has not changed since (or NoRef)
  ret,      \* outcome of the last call
  last,     \* the last call: method, receiver, receiver's state before, arguments
  gen,      \* the for-of loop over r.iter(): generator position, elements seen
  bridge    \* the promises, reactions, microtasks and ResultAsync handles

vars == <<heap, x, y, r, checked, ret, last, gen, bridge>>

\* no loop has been started
NoGen == [pos |-> "none", runs |-> 0, elems |-> <<>>, objs |-> <<>>,
          looping |-> FALSE, hasPrev |-> FALSE, prev |-> <<>>]
\* no promise exists
NoBridge == [proms |-> <<>>, reacts |-> <<>>, jobs |-> <<>>, handles |-> <<>>,
             awaits |-> <<>>, conts |-> <<>>]

NoCall == [op |-> "init", recv |-> NoRef, pre |-> FreeObj, arg |-> Undefined,
           pred |-> "", calls |-> 0, guarded |-> FALSE, seen |-> NotSeen,
           other |-> NoRef, arg2 |-> Undefined]

\* objects no variable refers to are reclaimed
GC(h, roots) == [q \in Refs |-> IF q \in roots THEN h[q] ELSE FreeObj]

Init ==
  /\ \E o \in {ObjNone} \cup {ObjSome(v) : v \in OptVals},
        res \in {ObjOk(v) : v \in OkVals} \cup {ObjErr(e) : e \in ErrVals} :
       heap = [q \in Refs |-> IF q = 1 THEN o ELSE IF q = 2 THEN res ELSE FreeObj]
  /\ x = 1
  /\ y = NoRef
  /\ r = 2
  /\ checked = NoRef
  /\ ret = NoRet
  /\ last = NoCall
  /\ gen = NoGen
  /\ bridge = NoBridge

\* the heap a call starts from: the caller holds x, y and r
Live == GC(heap, {x, y, r})

\* the Option containers the caller can call a method on
Options == {o \in {x, y} \ {NoRef} : heap[o].cls \in {"Some", "None"}}

\* the Result containers the caller can call a method on
Results == {o \in {r, y} \ {NoRef} : heap[o].cls \in {"Ok", "Err"}}

\* effect of a call `name` on `recv` whose run is `o`; `other` is the
\* container passed as argument (NoRef if none), `arg2` a second value argument
CallStep(name, recv, o, arg, pred, other, arg2) ==
  LET ny == IF o.ret.kind = "ref" THEN o.ret.ref ELSE y
      isCheck == name \in {"isSome", "isOk"} /\ o.ret = RetVal(Bool(TRUE))
      kept == IF checked # NoRef /\ checked \in {x, ny, r} /\ o.h[checked] = heap[checked]
                THEN checked ELSE NoRef
  IN  /\ heap' = GC(o.h, {x, ny, r, recv, other})
      /\ x' = x
      /\ y' = ny
      /\ r' = r
      /\ checked' = IF isCheck THEN recv ELSE kept
      /\ ret' = o.ret
      /\ last' = [op |-> name, recv |-> recv, pre |-> heap[recv], arg |-> arg,
                  pred |-> pred, calls |-> o.calls, guarded |-> (checked = recv),
                  seen |-> o.seen, other |-> other, arg2 |-> arg2]

CallWith(name, recv, o, arg, pred, other, arg2) ==
  /\ CallStep(name, recv, o, arg, pred, other, arg2)
  /\ UNCHANGED <<gen, bridge>>

Call(name, recv, o, arg, pred) == CallWith(name, recv, o, arg, pred, NoRef, Undefined)

(* --------------------------- Option actions ---------------------------- *)
CallType == \E o \in Options : Call("type", o, type(Live, o), Undefined, "")
CallIsSome == \E o \in Options : Call("isSome", o, isSome(Live, o), Undefined, "")
CallIsNone == \E o \in Options : Call("isNone", o, isNone(Live, o), Undefined, "")
CallUnwrap == \E o \in Options : Call("unwrap", o, unwrap(Live, o), Undefined, "")
CallUnwrapOr ==
  \E o \in Options, d \in OptVals : Call("unwrapOr", o, unwrapOr(Live, o, d), d, "")
CallUnwrapOrElse ==
  \E o \in Options, d \in OptVals : Call("unwrapOrElse", o, unwrapOrElse(Live, o, d), d, "")
CallInsert ==
  \E o \in Options, v \in OptVals : Call("insert", o, insert(Live, o, v), v, "")
CallGetOrInsert ==
  \E o \in Options, d \in OptVals : Call("getOrInsert", o, getOrInsert(Live, o, d), d, "")
CallGetOrInsertWith ==
  \E o \in Options, d \in OptVals :
    Call("getOrInsertWith", o, getOrInsertWith(Live, o, d), d, "")
CallTake == \E o \in Options : Call("take", o, take(Live, o), Undefined, "")
CallTakeIf ==
  \E o \in Options, p \in Preds : Call("takeIf", o, takeIf(Live, o, p), Undefined, p)
CallReplace ==
  \E o \in Options, v \in OptVals : Call("replace", o, replace(Live, o, v), v, "")

(* --------------------------- Result actions ---------------------------- *)
CallIsOk == Call("isOk", r, isOk(Live, r), Undefined, "")
CallIsErr == Call("isErr", r, isErr(Live, r), Undefined, "")
CallResultUnwrap == Call("Result.unwrap", r, Result_unwrap(Live, r), Undefined, "")
CallResultUnwrapOr ==
  \E d \in OkVals : Call("Result.unwrapOr", r, Result_unwrapOr(Live, r, d), d, "")
CallResultUnwrapOrElse ==
  \E d \in OkVals : Call("Result.unwrapOrElse", r, Result_unwrapOrElse(Live, r, d), d, "")
CallExpect == \E m \in Messages : Call("expect", r, expect(Live, r, m), m, "")
CallExpectErr == \E m \in StrMessages : Call("expectErr", r, expectErr(Live, r, m), m, "")
CallUnwrapErr == Call("unwrapErr", r, unwrapErr(Live, r), Undefined, "")

(* ---------------------- container arguments ---------------------------- *)
\* a container argument is one the caller already holds (ref) or one it
\* constructs for the call (obj)
Held(o) == [ref |-> o, obj |-> FreeObj]
Fresh(obj) == [ref |-> NoRef, obj |-> obj]
ArgHeap(h, a) == IF a.ref = NoRef THEN New(h, a.obj) ELSE h
ArgRef(h, a) == IF a.ref = NoRef THEN Alloc(h) ELSE a.ref
OptionArgs == {Held(o) : o \in Options} \cup {Fresh(obj) : obj \in OptionObjs}
ResultArgs == {Held(o) : o \in Results} \cup {Fresh(obj) : obj \in ResultObjs}

(* ---------------------- Option combinator actions ---------------------- *)
CallIsSomeAnd ==
  \E o \in Options, p \in Preds : Call("isSomeAnd", o, isSomeAnd(Live, o, p), Undefined, p)
CallOptionExpect ==
  \E o \in Options, m \in Messages :
    Call("Option.expect", o, Option_expect(Live, o, m), m, "")
CallOptionMap ==
  \E o \in Options, f \in Mappers : Call("Option.map", o, Option_map(Live, o, f), Undefined, f)
CallOptionMapOr ==
  \E o \in Options, d \in OptVals, f \in Mappers :
    Call("Option.mapOr", o, Option_mapOr(Live, o, d, f), d, f)
CallOptionMapOrElse ==
  \E o \in Options, d \in OptVals, f \in Mappers :
    Call("Option.mapOrElse", o, Option_mapOrElse(Live, o, d, f), d, f)
CallOkOr == \E o \in Options, e \in ErrVals : Call("okOr", o, okOr(Live, o, e), e, "")
CallOkOrElse ==
  \E o \in Options, e \in ErrVals : Call("okOrElse", o, okOrElse(Live, o, e), e, "")
CallOptionAnd ==
  \E o \in Options, a \in OptionArgs :
    CallWith("Option.and", o, Option_and(ArgHeap(Live, a), o, ArgRef(Live, a)),
             Undefined, "", ArgRef(Live, a), Undefined)
CallOptionAndThen ==
  \E o \in Options, f \in OptMakers :
    Call("Option.andThen", o, Option_andThen(Live, o, f), Undefined, f)
CallFilter ==
  \E o \in Options, p \in Preds : Call("filter", o, filter(Live, o, p), Undefined, p)
CallOptionOr ==
  \E o \in Options, a \in OptionArgs :
    CallWith("Option.or", o, Option_or(ArgHeap(Live, a), o, ArgRef(Live, a)),
             Undefined, "", ArgRef(Live, a), Undefined)
CallOrElse ==
  \E o \in Options, made \in OptionObjs :
    Call("orElse", o, orElse(Live, o, made), made.value, made.cls)
CallXor ==
  \E o \in Options, a \in OptionArgs :
    CallWith("xor", o, xor(ArgHeap(Live, a), o, ArgRef(Live, a)),
             Undefined, "", ArgRef(Live, a), Undefined)
CallOptionInspect ==
  \E o \in Options : Call("Option.inspect", o, Option_inspect(Live, o, "fn"), Undefined, "fn")
CallOptionToString ==
  \E o \in Options : Call("Option.toString", o, Option_toString(Live, o), Undefined, "")

(* ---------------------- Result combinator actions ---------------------- *)
CallOk == \E o \in Results : Call("ok", o, ok(Live, o), Undefined, "")
CallErr == \E o \in Results : Call("err", o, err(Live, o), Undefined, "")
CallIsOkAnd ==
  \E o \in Results, p \in Preds : Call("isOkAnd", o, isOkAnd(Live, o, p), Undefined, p)
CallIsErrAnd ==
  \E o \in Results, p \in Preds : Call("isErrAnd", o, isErrAnd(Live, o, p), Undefined, p)
CallResultMap ==
  \E o \in Results, f \in Mappers : Call("Result.map", o, Result_map(Live, o, f), Undefined, f)
CallResultMapOr ==
  \E o \in Results, d \in OkVals, f \in Mappers :
    Call("Result.mapOr", o, Result_mapOr(Live, o, d, f), d, f)
CallResultMapOrElse ==
  \E o \in Results, g \in ErrMappers, f \in Mappers :
    CallWith("Result.mapOrElse", o, Result_mapOrElse(Live, o, g, f), Undefined, f,
             NoRef, Str(g))
CallMapErr ==
  \E o \in Results, g \in ErrMappers : Call("mapErr", o, mapErr(Live, o, g), Undefined, g)
CallResultInspect ==
  \E o \in Results : Call("Result.inspect", o, Result_inspect(Live, o, "fn"), Undefined, "fn")
CallInspectErr ==
  \E o \in Results : Call("inspectErr", o, inspectErr(Live, o, "fn"), Undefined, "fn")
CallResultAnd ==
  \E o \in Results, a \in ResultArgs :
    CallWith("Result.and", o, Result_and(ArgHeap(Live, a), o, ArgRef(Live, a)),
             Undefined, "", ArgRef(Live, a), Undefined)
CallResultAndThen ==
  \E o \in Results, f \in ResMakers :
    Call("Result.andThen", o, Result_andThen(Live, o, f), Undefined, f)
CallResultOr ==
  \E o \in Results, a \in ResultArgs :
    CallWith("Result.or", o, Result_or(ArgHeap(Live, a), o, ArgRef(Live, a)),
             Undefined, "", ArgRef(Live, a), Undefined)
CallResultToString ==
  \E o \in Results : Call("Result.toString", o, Result_toString(Live, o), Undefined, "")
CallIter == \E o \in Results : Call("iter", o, Result_iter(Live, o), Undefined, "")

Next ==
  \/ CallType
  \/ CallIsSome
  \/ CallIsNone
  \/ CallUnwrap
  \/ CallUnwrapOr
  \/ CallUnwrapOrElse
  \/ CallInsert
  \/ CallGetOrInsert
  \/ CallGetOrInsertWith
  \/ CallTake
  \/ CallTakeIf
  \/ CallReplace
  \/ CallIsOk
  \/ CallIsErr
  \/ CallResultUnwrap
  \/ CallResultUnwrapOr
  \/ CallResultUnwrapOrElse
  \/ CallExpect
  \/ CallExpectErr
  \/ CallUnwrapErr
  \/ CallOptionInspect
  \/ CallResultInspect
  \/ CallInspectErr

Spec == Init /\ [][Next]_vars

(* ------------- the Option container with all its operations ------------ *)
InitOption ==
  /\ \E o \in OptionObjs : heap = [q \in Refs |-> IF q = 1 THEN o ELSE FreeObj]
  /\ x = 1
  /\ y = NoRef
  /\ r = NoRef
  /\ checked = NoRef
  /\ ret = NoRet
  /\ last = NoCall
  /\ gen = NoGen
  /\ bridge = NoBridge

NextOption ==
  \/ CallType
  \/ CallIsSome
  \/ CallIsNone
  \/ CallUnwrap
  \/ CallUnwrapOr
  \/ CallUnwrapOrElse
  \/ CallInsert
  \/ CallGetOrInsert
  \/ CallGetOrInsertWith
  \/ CallTake
  \/ CallTakeIf
  \/ CallReplace
  \/ CallIsSomeAnd
  \/ CallOptionExpect
  \/ CallOptionMap
  \/ CallOptionMapOr
  \/ CallOptionMapOrElse
  \/ CallOkOr
  \/ CallOkOrElse
  \/ CallOptionAnd
  \/ CallOptionAndThen
  \/ CallFilter
  \/ CallOptionOr
  \/ CallOrElse
  \/ CallXor
  \/ CallOptionInspect
  \/ CallOptionToString

SpecOption == InitOption /\ [][NextOption]_vars

(* -------- one Option container under its state-changing operations ----- *)
\* the call just made was made on the caller's container x
OnX == last'.recv = x
XInsert == CallInsert /\ OnX
XGetOrInsert == CallGetOrInsert /\ OnX
XGetOrInsertWith == CallGetOrInsertWith /\ OnX
XTake == CallTake /\ OnX
XTakeIf == CallTakeIf /\ OnX
XReplace == CallReplace /\ OnX
XIsSome == CallIsSome /\ OnX
XType == CallType /\ OnX
XUnwrap == CallUnwrap /\ OnX

NextOne ==
  \/ XInsert
  \/ XGetOrInsert
  \/ XGetOrInsertWith
  \/ XTake
  \/ XTakeIf
  \/ XReplace
  \/ XIsSome
  \/ XType
  \/ XUnwrap

SpecOne == InitOption /\ [][NextOne]_vars

(* ---------------- Options over payloads that may be null -------------- *)
InitNullable ==
  /\ \E o \in {ObjNone} \cup {ObjSome(v) : v \in NullableVals} :
       heap = [q \in Refs |-> IF q = 1 THEN o ELSE FreeObj]
  /\ x = 1
  /\ y = NoRef
  /\ r = NoRef
  /\ checked = NoRef
  /\ ret = NoRet
  /\ last = NoCall
  /\ gen = NoGen
  /\ bridge = NoBridge

\* Option.from(value): a static call, it has no receiver
CallFrom ==
  \E v \in NullableVals :
    LET o == Option_from(Live, v)
    IN  /\ heap' = GC(o.h, {x, o.ret.ref, r})
        /\ y' = o.ret.ref
        /\ checked' = IF checked \in {x, r} THEN checked ELSE NoRef
        /\ ret' = o.ret
        /\ last' = [NoCall EXCEPT !.op = "Option.from", !.arg = v]
        /\ UNCHANGED <<x, r, gen, bridge>>
CallFlattenNullable ==
  \E o \in Options : Call("flattenNullable", o, flattenNullable(Live, o), Undefined, "")
CallInsertNullable ==
  \E o \in Options, v \in NullableVals : Call("insert", o, insert(Live, o, v), v, "")

NextNullable ==
  \/ CallFrom
  \/ CallFlattenNullable
  \/ CallInsertNullable
  \/ CallIsSome
  \/ CallUnwrap
  \/ CallTake

SpecNullable == InitNullable /\ [][NextNullable]_vars

(* ------------- the Result container with all its operations ------------ *)
InitResult ==
  /\ \E res \in ResultObjs : heap = [q \in Refs |-> IF q = 1 THEN res ELSE FreeObj]
  /\ x = NoRef
  /\ y = NoRef
  /\ r = 1
  /\ checked = NoRef
  /\ ret = NoRet
  /\ last = NoCall
  /\ gen = NoGen
  /\ bridge = NoBridge

NextResult ==
  \/ CallIsOk
  \/ CallIsErr
  \/ CallResultUnwrap
  \/ CallResultUnwrapOr
  \/ CallResultUnwrapOrElse
  \/ CallExpect
  \/ CallExpectErr
  \/ CallUnwrapErr
  \/ CallOk
  \/ CallErr
  \/ CallIsOkAnd
  \/ CallIsErrAnd
  \/ CallResultMap
  \/ CallResultMapOr
  \/ CallResultMapOrElse
  \/ CallMapErr
  \/ CallResultInspect
  \/ CallInspectErr
  \/ CallResultAnd
  \/ CallResultAndThen
  \/ CallResultOr
  \/ CallResultToString
  \/ CallIter

SpecResult == InitResult /\ [][NextResult]_vars

(* ------------------- a for-of loop over r.iter() ----------------------- *)
\* `for (const value of r.iter())`: iter() makes a new generator; nothing of
\* its body has run yet
IterOpen ==
  /\ r # NoRef
  /\ ~gen.looping
  /\ gen' = [pos |-> "start", runs |-> 0, elems |-> <<>>, objs |-> <<>>,
             looping |-> TRUE,
             hasPrev |-> (gen.pos = "done"),
             prev |-> IF gen.pos = "done" THEN gen.objs ELSE <<>>]
  /\ UNCHANGED <<heap, x, y, r, checked, ret, last, bridge>>

\* one turn of the loop: next() resumes the generator; unless it is done the
\* loop body runs with the yielded element bound to `value` (y)
IterNext ==
  /\ gen.looping
  /\ LET n == Result_iter_resume(Live, r, gen.pos)
     IN  IF n.done
           THEN /\ gen' = [gen EXCEPT !.pos = n.pos, !.looping = FALSE]
                /\ UNCHANGED <<heap, x, y, r, checked, ret, last, bridge>>
           ELSE /\ CallStep("iter.next", r, n.out, Undefined, "", NoRef, Undefined)
                /\ gen' = [gen EXCEPT !.pos = n.pos, !.runs = @ + 1,
                                      !.elems = Append(@, n.out.ret),
                                      !.objs = Append(@, n.out.h[n.out.ret.ref])]
                /\ bridge' = bridge

NextIter ==
  \/ IterOpen
  \/ IterNext
  \/ CallUnwrap
  \/ CallIsSome
  \/ CallOk
  \/ CallResultMap
  \/ CallResultUnwrapOr

SpecIter == InitResult /\ [][NextIter]_vars
\* a for-of loop runs synchronously to its end: its next turn is always taken
SpecIterFair == SpecIter /\ WF_vars(IterNext)

(* ------------------ the deferred-value bridge ResultAsync --------------- *)
InitBridge ==
  /\ heap = EmptyHeap
  /\ x = NoRef
  /\ y = NoRef
  /\ r = NoRef
  /\ checked = NoRef
  /\ ret = NoRet
  /\ last = NoCall
  /\ gen = NoGen
  /\ bridge = NewBridge

BridgeStep(w) ==
  /\ bridge' = w
  /\ UNCHANGED <<heap, x, y, r, checked, ret, last, gen>>

Room(n) == Len(bridge.proms) + n <= MaxProms

\* the pending computation fulfils with v or rejects with e
BridgeFulfil ==
  /\ bridge.proms[1].st = "pending"
  /\ \E v \in Nums : BridgeStep(SettlePromise(bridge, 1, "fulfilled", PV(v)))
BridgeReject ==
  /\ bridge.proms[1].st = "pending"
  /\ \E e \in ErrVals : BridgeStep(SettlePromise(bridge, 1, "rejected", PV(e)))

BridgeAwait ==
  /\ Room(2)
  /\ \E h \in DOMAIN bridge.handles : BridgeStep(ResultAsync_await(bridge, h))
BridgeThen ==
  /\ Room(1)
  /\ \E h \in DOMAIN bridge.handles, c \in BOOLEAN :
       BridgeStep(ResultAsync_then(bridge, h, c))
BridgeMap ==
  /\ Room(1)
  /\ \E h \in DOMAIN bridge.handles, f \in Mappers :
       BridgeStep(ResultAsync_map(bridge, h, f))
BridgeMapErrAsync ==
  /\ Room(3)
  /\ \E h \in DOMAIN bridge.handles, g \in ErrMappers :
       BridgeStep(ResultAsync_mapErrAsync(bridge, h, g))
\* the event loop runs the next microtask
BridgeRunJob ==
  /\ bridge.jobs # <<>>
  /\ BridgeStep(RunJob(bridge))

NextBridge ==
  \/ BridgeFulfil
  \/ BridgeReject
  \/ BridgeAwait
  \/ BridgeThen
  \/ BridgeMap
  \/ BridgeMapErrAsync
  \/ BridgeRunJob

SpecBridge == InitBridge /\ [][NextBridge]_vars

(* ------------------------------ properties ----------------------------- *)
\* the object a returned reference points to
Returned == heap[ret.ref]
\* the receiver of the last call, as it is now
Receiver == heap[last.recv]
WasSome == last.pre.type = OptionType_Some
WasNone == last.pre.type = OptionType_None

\* C1: take() on Present(v) returns a container equal to Present(v) and
\* leaves the receiver Absent; take() on Absent returns Absent and leaves the
\* receiver Absent.
C1_TakeLaw ==
  last.op = "take" =>
    /\ ret.kind = "ref"
    /\ Receiver = ObjNone
    /\ WasSome => Returned = ObjSome(last.pre.value)
    /\ WasNone => Returned = ObjNone

C1_Witness ==
  /\ last.op = "take"
  /\ last.pre = ObjSome(Num(2))
  /\ Returned = ObjSome(Num(2))
  /\ Receiver = ObjNone

\* C2: insert(v) on either variant returns v and leaves the same container
\* Present(v); isSome() is then true and unwrap() returns v.
C2_InsertLaw ==
  last.op = "insert" =>
    /\ ret = RetVal(last.arg)
    /\ Receiver = ObjSome(last.arg)
    /\ isSome(heap, last.recv).ret = RetVal(Bool(TRUE))
    /\ unwrap(heap, last.recv).ret = RetVal(last.arg)

C2_Witness ==
  /\ last.op = "insert"
  /\ last.pre = ObjNone
  /\ last.arg = Num(1)
  /\ Receiver = ObjSome(Num(1))

\* C3: replace(v) leaves the receiver Present(v) and returns a container
\* equal to the receiver's previous state, Present(old) or Absent.
C3_ReplaceLaw ==
  last.op = "replace" =>
    /\ ret.kind = "ref"
    /\ Receiver = ObjSome(last.arg)
    /\ WasSome => Returned = ObjSome(last.pre.value)
    /\ WasNone => Returned = ObjNone

C3_Witness ==
  /\ last.op = "replace"
  /\ last.pre = ObjSome(Num(1))
  /\ last.arg = Num(2)
  /\ Returned = ObjSome(Num(1))
  /\ Receiver = ObjSome(Num(2))

\* C4: getOrInsert(d) / getOrInsertWith(fn) on Absent make the receiver
\* Present(d) and return d; on Present(v) they return v, leave the receiver
\* Present(v), and getOrInsertWith does not invoke fn.
C4_GetOrInsertLaw ==
  last.op \in {"getOrInsert", "getOrInsertWith"} =>
    /\ WasNone => /\ ret = RetVal(last.arg)
                  /\ Receiver = ObjSome(last.arg)
                  /\ last.op = "getOrInsertWith" => last.calls = 1
    /\ WasSome => /\ ret = RetVal(last.pre.value)
                  /\ Receiver = last.pre
                  /\ last.calls = 0

C4_Witness ==
  /\ last.op = "getOrInsertWith"
  /\ last.pre = ObjSome(Num(1))
  /\ last.arg = Num(2)
  /\ ret = RetVal(Num(1))

\* C5: takeIf(p) on Present(v) takes when p(v) holds and otherwise leaves
\* the receiver Present(v) and returns Absent; on Absent it returns Absent,
\* leaves the receiver Absent and does not evaluate p.
C5_TakeIfLaw ==
  last.op = "takeIf" =>
    /\ ret.kind = "ref"
    /\ (WasSome /\ ApplyPred(last.pred, last.pre.value)) =>
          /\ Returned = ObjSome(last.pre.value)
          /\ Receiver = ObjNone
    /\ (WasSome /\ ~ApplyPred(last.pred, last.pre.value)) =>
          /\ Returned = ObjNone
          /\ Receiver = last.pre
    /\ WasNone => /\ Returned = ObjNone
                  /\ Receiver = ObjNone
                  /\ last.calls = 0

C5_Witness ==
  /\ last.op = "takeIf"
  /\ last.pred = "isEven"
  /\ last.pre = ObjSome(Num(1))
  /\ Receiver = ObjSome(Num(1))
  /\ Returned = ObjNone

\* C6: in every reachable state each Option has exactly one active variant:
\* exactly one of isSome() / isNone() is true and `type` names that variant;
\* a transition happens in the container itself, so a reference captured
\* before it observes the new variant.
MutatingOps == {"insert", "getOrInsert", "getOrInsertWith", "take", "takeIf", "replace"}
C6_OneVariant ==
  /\ \A o \in Options :
       /\ isSome(heap, o).ret # isNone(heap, o).ret
       /\ isSome(heap, o).ret = RetVal(Bool(type(heap, o).ret = RetVal(Num(OptionType_Some))))
       /\ isNone(heap, o).ret = RetVal(Bool(type(heap, o).ret = RetVal(Num(OptionType_None))))
  /\ \A o \in Options :
       (last.op \in MutatingOps /\ o = last.recv) =>
          /\ last.op \in {"insert", "getOrInsert", "getOrInsertWith", "replace"}
               => isSome(heap, o).ret = RetVal(Bool(TRUE))
          /\ last.op = "take" => isNone(heap, o).ret = RetVal(Bool(TRUE))

\* two references to one container; the insert through y is seen through x
C6_Witness ==
  /\ x = y
  /\ last.op = "insert"
  /\ last.recv = y
  /\ last.pre = ObjNone
  /\ isSome(heap, x).ret = RetVal(Bool(TRUE))
  /\ type(heap, x).ret = RetVal(Num(OptionType_Some))

\* C7: unwrap() returns the current payload of a Present container and
\* throws the fixed-message error, returning nothing, on an Absent one.
C7_UnwrapLaw ==
  last.op = "unwrap" =>
    /\ WasSome => ret = RetVal(last.pre.value)
    /\ WasNone => ret = Throw(ErrorOf(UnwrapNoneMessage))

\* x was emptied by a take (y holds what it returned) and then unwrapped
C7_Witness ==
  /\ last.op = "unwrap"
  /\ last.recv = x
  /\ ret = Throw(ErrorOf(UnwrapNoneMessage))
  /\ y \notin {NoRef, x}
  /\ heap[y].cls = "Some"

WasOk == last.pre.type = ResultType_Ok
WasErr == last.pre.type = ResultType_Err

\* a fault surfaces payload e when it is e, or when no other payload of the
\* same Failure would have produced the same fault
Surfaces(fault, e) ==
  \/ fault = e
  \/ \A e2 \in ErrVals :
       Result_unwrap([heap EXCEPT ![last.recv] = ObjErr(e2)], last.recv).ret = Throw(fault)
         => e2 = e

\* C8: Result.unwrap() returns v on Success(v) and on Failure(e) fails with a
\* fault that surfaces the payload e; unwrapErr() returns e on Failure(e) and
\* fails on Success(v); neither returns a value of the off-variant.
C8_UnwrapSurfacesPayload ==
  /\ (last.op = "Result.unwrap" /\ WasOk) => ret = RetVal(last.pre.value)
  /\ (last.op = "Result.unwrap" /\ WasErr) =>
        ret.kind = "throw" /\ Surfaces(ret.val, last.pre.value)
  /\ (last.op = "unwrapErr" /\ WasErr) => ret = RetVal(last.pre.value)
  /\ (last.op = "unwrapErr" /\ WasOk) => ret.kind = "throw"

\* the text `<message>: <payload>` of a failed expect
Prefixed(message, payload) == TemplateStr(message) \o ": " \o TemplateStr(payload)

\* C9 (as stated): expect(message) on Failure(e) and expectErr(message) on
\* Success(v) fail with the message prefixed to the offending payload, for
\* every message the caller may pass; on the matching variant they return the
\* payload.
C9_ExpectPrefixesEveryMessage ==
  /\ (last.op = "expect" /\ WasOk) => ret = RetVal(last.pre.value)
  /\ (last.op = "expect" /\ WasErr) =>
        /\ ret.kind = "throw"
        /\ ret.val.t = "Error"
        /\ ret.val.s \in {Prefixed(last.arg, last.pre.value),
                          last.arg.s \o ": " \o TemplateStr(last.pre.value)}
  /\ (last.op = "expectErr" /\ WasErr) => ret = RetVal(last.pre.value)
  /\ (last.op = "expectErr" /\ WasOk) =>
        ret = Throw(ErrorOf(Prefixed(last.arg, last.pre.value)))

\* C9 (amended): a string message is prefixed to the text of the offending
\* payload; an Error passed to expect on Failure(e) is itself the fault; on
\* the matching variant the payload is returned.
C9_ExpectLaw ==
  /\ (last.op = "expect" /\ WasOk) => ret = RetVal(last.pre.value)
  /\ (last.op = "expect" /\ WasErr /\ last.arg.t = "string") =>
        ret = Throw(ErrorOf(Prefixed(last.arg, last.pre.value)))
  /\ (last.op = "expect" /\ WasErr /\ last.arg.t = "Error") => ret = Throw(last.arg)
  /\ (last.op = "expectErr" /\ WasErr) => ret = RetVal(last.pre.value)
  /\ (last.op = "expectErr" /\ WasOk) =>
        ret = Throw(ErrorOf(Prefixed(last.arg, last.pre.value)))

C9_Witness ==
  /\ last.op = "expect"
  /\ last.pre = ObjErr(Str("error"))
  /\ last.arg = Str("error message")
  /\ ret = Throw(ErrorOf("error message: error"))

\* C10: unwrapOr(d) and unwrapOrElse(fn) never fail on either container:
\* they return the payload, or the fallback; and unwrap() does not fail on a
\* container whose isSome() / isOk() returned true with no change since.
C10_NoFaultWhenChecked ==
  /\ last.op \in {"unwrapOr", "unwrapOrElse"} =>
        ret = RetVal(IF WasSome THEN last.pre.value ELSE last.arg)
  /\ last.op \in {"Result.unwrapOr", "Result.unwrapOrElse"} =>
        ret = RetVal(IF WasOk THEN last.pre.value ELSE last.arg)
  /\ (last.op \in {"unwrap", "Result.unwrap"} /\ last.guarded) =>
        ret = RetVal(last.pre.value)

\* y, returned by a take, was checked with isSome() and then unwrapped
C10_Witness ==
  /\ last.op = "unwrap"
  /\ last.guarded
  /\ last.recv = y
  /\ y # x
  /\ ret = RetVal(Num(2))

\* the container passed as argument to the last call, as it is now
Other == heap[last.other]
IsTrue(o) == o.ret = RetVal(Bool(TRUE))

\* C11: a Result is immutable: no operation of Ok or Err changes the variant
\* or the payload of the receiver (nor of the caller's Result r), in any
\* sequence of calls.
C11_ResultImmutable ==
  [][ /\ heap'[last'.recv] = heap[last'.recv]
      /\ heap'[r] = heap[r] ]_vars

C11_Witness ==
  /\ last.op = "Result.map"
  /\ last.recv = r
  /\ last.pre = ObjOk(Num(1))
  /\ Receiver = ObjOk(Num(1))
  /\ Returned = ObjOk(Num(2))

\* C12: an Option changes only through insert, getOrInsert, getOrInsertWith,
\* take, takeIf and replace: a call of any other operation leaves the
\* receiver (and the caller's container x) with the variant and payload it had.
C12_OnlyMutatorsChange ==
  [][ last'.op \notin MutatingOps =>
        /\ heap'[last'.recv] = heap[last'.recv]
        /\ heap'[x] = heap[x] ]_vars

C12_Witness ==
  /\ last.op = "filter"
  /\ last.pred = "never"
  /\ last.recv = x
  /\ last.pre = ObjSome(Num(2))
  /\ Receiver = ObjSome(Num(2))
  /\ Returned = ObjNone

\* C13: inspect(fn) returns the receiver itself and leaves it as it was; on
\* an Option fn runs once with the payload if Present and not at all if
\* Absent; Result.inspect runs fn once only on Success, inspectErr once only
\* on Failure.
C13_InspectLaw ==
  /\ last.op \in {"Option.inspect", "Result.inspect", "inspectErr"} =>
        /\ ret = RetRef(last.recv)
        /\ Receiver = last.pre
  /\ last.op = "Option.inspect" =>
        /\ WasSome => (last.calls = 1 /\ last.seen = last.pre.value)
        /\ WasNone => (last.calls = 0 /\ last.seen = NotSeen)
  /\ last.op = "Result.inspect" =>
        /\ WasOk => (last.calls = 1 /\ last.seen = last.pre.value)
        /\ WasErr => (last.calls = 0 /\ last.seen = NotSeen)
  /\ last.op = "inspectErr" =>
        /\ WasErr => (last.calls = 1 /\ last.seen = last.pre.value)
        /\ WasOk => (last.calls = 0 /\ last.seen = NotSeen)

C13_Witness ==
  /\ last.op = "Result.inspect"
  /\ last.pre = ObjErr(Str("error"))
  /\ last.calls = 0
  /\ ret = RetRef(r)
  /\ Receiver = ObjErr(Str("error"))

\* C14: Success(v).map(f).unwrap() is f(v); Failure(e).map(f) is Failure(e)
\* with the same payload, and f is not invoked.
C14_MapLaw ==
  last.op = "Result.map" =>
    /\ ret.kind = "ref"
    /\ WasOk => Result_unwrap(Live, ret.ref).ret = RetVal(ApplyMap(last.pred, last.pre.value))
    /\ WasErr => (Returned = ObjErr(last.pre.value) /\ last.calls = 0)

C14_Witness ==
  /\ last.op = "Result.map"
  /\ last.pred = "next"
  /\ last.pre = ObjErr(ObjCode(430))
  /\ Returned = ObjErr(ObjCode(430))
  /\ last.calls = 0

\* C15: mapErr(f) on Failure(e) is Failure(f(e)), on Success(v) it is
\* Success(v) and f is not invoked; unwrapOr(d) on the resulting Failure is d
\* (Failure({code:430}) mapped with e => e.code is Failure(430), unwrapOr(0) = 0).
C15_MapErrLaw ==
  last.op = "mapErr" =>
    /\ ret.kind = "ref"
    /\ WasErr =>
         /\ Returned = ObjErr(ApplyErrMap(last.pred, last.pre.value))
         /\ \A d \in OkVals \cup {Num(0)} :
              Result_unwrapOr(Live, ret.ref, d).ret = RetVal(d)
    /\ WasOk => (Returned = ObjOk(last.pre.value) /\ last.calls = 0)

C15_Witness ==
  /\ last.op = "mapErr"
  /\ last.pred = "code"
  /\ last.pre = ObjErr(ObjCode(430))
  /\ Returned = ObjErr(Num(430))
  /\ Result_unwrapOr(Live, ret.ref, Num(0)).ret = RetVal(Num(0))

\* the Option a conversion `conv` of the Result at `res` produces
Converted(conv) == conv.h[conv.ret.ref]

\* C16: round trip: Present(v).okOr(e).ok() equals Present(v) and
\* Absent.okOr(e).ok() equals Absent, the same with okOrElse(() => e); and
\* Absent.okOr(e).err() equals Present(e).
C16_RoundTrip ==
  last.op \in {"okOr", "okOrElse"} =>
    /\ ret.kind = "ref"
    /\ Converted(ok(Live, ret.ref)) = last.pre
    /\ WasSome => last.pre = ObjSome(last.pre.value)
    /\ WasNone => /\ last.pre = ObjNone
                  /\ Converted(err(Live, ret.ref)) = ObjSome(last.arg)

C16_Witness ==
  /\ last.op = "okOrElse"
  /\ last.pre = ObjNone
  /\ last.arg = ObjCode(430)
  /\ Returned = ObjErr(ObjCode(430))
  /\ Converted(ok(Live, ret.ref)) = ObjNone
  /\ Converted(err(Live, ret.ref)) = ObjSome(ObjCode(430))

\* C17: ok() is Present(v) on Success(v) and Absent on Failure(e); err() is
\* Present(e) on Failure(e) and Absent on Success(v); so for every Result
\* exactly one of ok() and err() is Present.
C17_ConversionLaw ==
  /\ last.op = "ok" =>
        /\ WasOk => Returned = ObjSome(last.pre.value)
        /\ WasErr => Returned = ObjNone
  /\ last.op = "err" =>
        /\ WasErr => Returned = ObjSome(last.pre.value)
        /\ WasOk => Returned = ObjNone
  /\ \A q \in Results :
       LET a == ok(Live, q)
           b == err(Live, q)
       IN  IsTrue(isSome(a.h, a.ret.ref)) # IsTrue(isSome(b.h, b.ret.ref))

C17_Witness ==
  /\ last.op = "err"
  /\ last.pre = ObjErr(Str("error"))
  /\ Returned = ObjSome(Str("error"))
  /\ Converted(ok(Live, last.recv)) = ObjNone

\* C18: x.xor(y) is Present iff exactly one of x, y is Present, and then
\* carries that one's payload.
C18_XorLaw ==
  last.op = "xor" =>
    /\ ret.kind = "ref"
    /\ (WasSome /\ Other.type = OptionType_None) => Returned = ObjSome(last.pre.value)
    /\ (WasNone /\ Other.type = OptionType_Some) => Returned = ObjSome(Other.value)
    /\ (WasSome /\ Other.type = OptionType_Some) => Returned = ObjNone
    /\ (WasNone /\ Other.type = OptionType_None) => Returned = ObjNone

C18_Witness ==
  /\ last.op = "xor"
  /\ last.pre = ObjSome(Num(1))
  /\ last.other # last.recv
  /\ Other = ObjSome(Num(2))
  /\ Returned = ObjNone

\* C19: filter(p) is Present(v) exactly when the receiver is Present(v) and
\* p(v) holds, and Absent otherwise; on an Absent receiver p is not evaluated.
C19_FilterLaw ==
  last.op = "filter" =>
    /\ ret.kind = "ref"
    /\ (WasSome /\ ApplyPred(last.pred, last.pre.value)) =>
          Returned = ObjSome(last.pre.value)
    /\ (WasSome /\ ~ApplyPred(last.pred, last.pre.value)) => Returned = ObjNone
    /\ WasNone => (Returned = ObjNone /\ last.calls = 0)

C19_Witness ==
  /\ last.op = "filter"
  /\ last.pred = "isEven"
  /\ last.pre = ObjSome(Num(1))
  /\ Returned = ObjNone
  /\ Receiver = ObjSome(Num(1))

\* C20: and(other) / andThen(fn) are Absent on an Absent receiver (fn not
\* invoked) and other / fn(v) on Present(v); or(other) / orElse(fn) return
\* the receiver when it is Present (fn not invoked) and other / fn() when it
\* is Absent.
C20_ShortCircuit ==
  /\ last.op = "Option.and" =>
        /\ WasNone => Returned = ObjNone
        /\ WasSome => ret = RetRef(last.other)
  /\ last.op = "Option.andThen" =>
        /\ WasNone => (Returned = ObjNone /\ last.calls = 0)
        /\ WasSome => (Returned = MadeOption(last.pred, last.pre.value) /\ last.calls = 1)
  /\ last.op = "Option.or" =>
        /\ WasSome => ret = RetRef(last.recv)
        /\ WasNone => ret = RetRef(last.other)
  /\ last.op = "orElse" =>
        /\ WasSome => (ret = RetRef(last.recv) /\ last.calls = 0)
        /\ WasNone => /\ Returned = [cls |-> last.pred, value |-> last.arg,
                                     type |-> IF last.pred = "Some" THEN OptionType_Some
                                                                    ELSE OptionType_None]
                      /\ last.calls = 1

C20_Witness ==
  /\ last.op = "Option.and"
  /\ last.pre = ObjSome(Num(1))
  /\ last.other # last.recv
  /\ ret = RetRef(last.other)
  /\ Returned = ObjSome(Num(2))

\* C21: Result short-circuiting: and(other) / andThen(fn) on Failure(e) yield
\* Failure(e) with the receiver's payload (fn not invoked) and on Success(v)
\* yield other / fn(v); or(other) yields a Success carrying v on Success(v)
\* and other on Failure.
C21_ResultShortCircuit ==
  /\ last.op = "Result.and" =>
        /\ WasErr => (Returned = ObjErr(last.pre.value) /\ last.calls = 0)
        /\ WasOk => ret = RetRef(last.other)
  /\ last.op = "Result.andThen" =>
        /\ WasErr => (Returned = ObjErr(last.pre.value) /\ last.calls = 0)
        /\ WasOk => (Returned = MadeResult(last.pred, last.pre.value) /\ last.calls = 1)
  /\ last.op = "Result.or" =>
        /\ WasOk => Returned = ObjOk(last.pre.value)
        /\ WasErr => ret = RetRef(last.other)

C21_Witness ==
  /\ last.op = "Result.and"
  /\ last.pre = ObjErr(ObjCode(430))
  /\ last.other # last.recv
  /\ Other = ObjOk(Num(1))
  /\ Returned = ObjErr(ObjCode(430))
  /\ ret.ref # last.other

\* the single element the conversion ok() of the Result r gives
OkOption == IF heap[r].type = ResultType_Ok THEN ObjSome(heap[r].value) ELSE ObjNone

\* C22 as stated: iter() produces an empty sequence on Failure and the single
\* element v (the Success value itself) on Success(v).
C22_IterZeroOrOne ==
  gen.pos = "done" =>
    IF heap[r].type = ResultType_Err
      THEN gen.elems = <<>>
      ELSE gen.elems = <<RetVal(heap[r].value)>>

\* C22 (amended): iter() on a Result produces a finite sequence of length
\* exactly 1 whose element is the Option ok() gives (Some(v) on Success(v),
\* None on Failure); every call to iter() on the same Result produces that
\* same sequence from the start.
C22_IterLaw ==
  /\ Len(gen.objs) <= 1
  /\ gen.pos = "done" =>
        /\ gen.objs = <<OkOption>>
        /\ gen.hasPrev => gen.objs = gen.prev

C22_Witness ==
  /\ gen.pos = "done"
  /\ gen.hasPrev
  /\ heap[r] = ObjErr(Str("error"))
  /\ gen.prev = <<ObjNone>>
  /\ gen.objs = <<ObjNone>>

\* what holds of a loop over iter() at each of its turns
LoopRunsOnce ==
  /\ gen.runs <= 1
  /\ gen.pos = "done" => (gen.runs = 1 /\ ~gen.looping)
  /\ last.op = "iter.next" =>
        /\ ret.kind = "ref"
        /\ WasOk => /\ Returned = ObjSome(last.pre.value)
                    /\ unwrap(Live, ret.ref).ret = RetVal(last.pre.value)
        /\ WasErr => Returned = ObjNone

\* C23: iterating over iter() of any Result, Ok or Err, runs the loop body
\* exactly once and then terminates; the single element is an Option that is
\* Some(v) for Ok(v) (its unwrap() gives v) and None for Err.
C23_LoopRunsOnceAndEnds ==
  /\ []LoopRunsOnce
  /\ gen.looping ~> (gen.pos = "done" /\ gen.runs = 1)

C23_Witness ==
  /\ gen.pos = "done"
  /\ gen.runs = 1
  /\ ~gen.looping
  /\ heap[r] = ObjErr(ErrorOf("nested"))
  /\ gen.elems # <<>>

\* the Result a settled promise stands for
ResultOf(p) == IF p.st = "fulfilled" THEN ObjOk(p.val.v) ELSE ObjErr(p.val.v)
Settled(p) == p.st # "pending"
\* the promise of a handle, and the promise given out by a delivery
\* (await(), or then() without a continuation)
Source(h) == bridge.proms[bridge.handles[h].promise]
Delivered(a) == bridge.proms[a.promise]
Deliveries == {bridge.awaits[i] : i \in DOMAIN bridge.awaits}
Continuations == {bridge.conts[i] : i \in DOMAIN bridge.conts}
Quiet == bridge.jobs = <<>>

\* C24: the bridge produces exactly one Result per settlement: await() and a
\* continuation registered with then() each receive Ok(v) if the pending
\* computation fulfils with v and Err(e) if it rejects with e, the
\* continuation is invoked exactly once, and the promise returned by await()
\* never rejects because of the computation's fault.
C24_OneResultPerSettlement ==
  /\ \A a \in Deliveries :
       /\ Delivered(a).st # "rejected"
       /\ Delivered(a).st = "fulfilled" =>
             /\ Settled(Source(a.handle))
             /\ Delivered(a).val = PR(ResultOf(Source(a.handle)))
       /\ (Settled(Source(a.handle)) /\ Quiet) => Delivered(a).st = "fulfilled"
  /\ \A c \in Continuations :
       /\ c.calls <= 1
       /\ c.calls = 1 =>
             /\ Settled(Source(c.handle))
             /\ c.got = PR(ResultOf(Source(c.handle)))
       /\ (Settled(Source(c.handle)) /\ Quiet) => c.calls = 1

C24_Witness ==
  /\ bridge.proms[1] = [st |-> "rejected", val |-> PV(ObjCode(430))]
  /\ \E a \in Deliveries :
       /\ a.handle = 1
       /\ Delivered(a) = [st |-> "fulfilled", val |-> PR(ObjErr(ObjCode(430)))]
  /\ \E c \in Continuations :
       /\ c.handle = 1
       /\ c.calls = 1
       /\ c.got = PR(ObjErr(ObjCode(430)))

\* C25 as stated: mapErrAsync(f) is mapErr-equivalent: if the computation
\* rejects with e the new handle produces Failure(f(e)), payload exactly
\* f(e); if it fulfils with v the new handle produces Success(v) and f is not
\* invoked.
C25_MapErrAsyncLaw ==
  \A a \in Deliveries :
    LET h == bridge.handles[a.handle]
    IN  (h.via = "mapErrAsync" /\ Delivered(a).st = "fulfilled") =>
          /\ Source(h.parent).st = "fulfilled" =>
                /\ Delivered(a).val = PR(ObjOk(Source(h.parent).val.v))
                /\ h.ncalls = 0
          /\ Source(h.parent).st = "rejected" =>
                Delivered(a).val = PR(ObjErr(ApplyErrMap(h.fn, Source(h.parent).val.v)))

\* what map(f) has delivered so far
MapDelivers ==
  \A a \in Deliveries :
    LET h == bridge.handles[a.handle]
    IN  /\ (h.via = "map" /\ Delivered(a).st = "fulfilled") =>
             /\ Source(h.parent).st = "fulfilled" =>
                   /\ Delivered(a).val = PR(ObjOk(ApplyMap(h.fn, Source(h.parent).val.v)))
                   /\ h.ncalls = 1
             /\ Source(h.parent).st = "rejected" =>
                   /\ Delivered(a).val = PR(ObjErr(Source(h.parent).val.v))
                   /\ h.ncalls = 0
        /\ (a.handle = 1 /\ Delivered(a).st = "fulfilled") =>
             Delivered(a).val = PR(ResultOf(bridge.proms[1]))

\* C26: map(f) on the bridge returns a new handle: it produces Success(f(v))
\* if the computation fulfils with v and Failure(e), the fault unchanged and f
\* not invoked, if it rejects with e, while the original handle is not
\* changed and still produces Success(v) / Failure(e).
C26_MapNewHandle ==
  /\ []MapDelivers
  /\ [][\A h \in DOMAIN bridge.handles :
          bridge'.handles[h].promise = bridge.handles[h].promise]_vars

C26_Witness ==
  /\ bridge.proms[1] = [st |-> "fulfilled", val |-> PV(Num(1))]
  /\ \E a, b \in Deliveries :
       /\ a.handle = 1
       /\ Delivered(a) = [st |-> "fulfilled", val |-> PR(ObjOk(Num(1)))]
       /\ bridge.handles[b.handle].via = "map"
       /\ bridge.handles[b.handle].parent = 1
       /\ bridge.handles[b.handle].fn = "next"
       /\ Delivered(b) = [st |-> "fulfilled", val |-> PR(ObjOk(Num(2)))]

\* the payload-to-text conversions a rendering can use
Conversions == {"json", "template"}
PayloadText(conv, v) == IF conv = "json" THEN JSONStringify(v) ELSE TemplateStr(v)
Rendered(name, conv, v) == RetVal(Str(name \o "(" \o PayloadText(conv, v) \o ")"))
\* a heap holding the one object `obj`, at reference 1
Only(obj) == New(EmptyHeap, obj)

\* C27: Some, Ok and Err render as VariantName(payload-text) with one and
\* the same payload-to-text conversion for all three, the empty Option
\* renders as the bare name None, and after take() / insert() an Option
\* renders as its current variant.
C27_OneRendering ==
  last.op = "Result.toString" =>
    LET v == last.pre.value
        taken == take(Only(ObjSome(v)), 1)
        filled == insert(taken.h, 1, v)
    IN  /\ \E conv \in Conversions :
             /\ ret = Rendered(IF WasOk THEN "Ok" ELSE "Err", conv, v)
             /\ Some_toString(Only(ObjSome(v)), 1).ret = Rendered("Some", conv, v)
             /\ Ok_toString(Only(ObjOk(v)), 1).ret = Rendered("Ok", conv, v)
             /\ Err_toString(Only(ObjErr(v)), 1).ret = Rendered("Err", conv, v)
        /\ Option_toString(Only(ObjNone), 1).ret = RetVal(Str("None"))
        /\ Option_toString(taken.h, 1).ret = RetVal(Str("None"))
        /\ Option_toString(filled.h, 1).ret = Some_toString(Only(ObjSome(v)), 1).ret

(* reference model of one Option: a single variable, Absent or Present(v) *)
Absent == [some |-> FALSE, v |-> Undefined]
Present(v) == [some |-> TRUE, v |-> v]
GivesValue(v) == [k |-> "value", m |-> Absent, v |-> v]
GivesOption(m) == [k |-> "option", m |-> m, v |-> Undefined]
Fails == [k |-> "throw", m |-> Absent, v |-> Undefined]
RefStep(op, m, arg, pred) ==
  CASE op = "insert" -> [m |-> Present(arg), ret |-> GivesValue(arg)]
    [] op \in {"getOrInsert", "getOrInsertWith"} ->
         IF m.some THEN [m |-> m, ret |-> GivesValue(m.v)]
                   ELSE [m |-> Present(arg), ret |-> GivesValue(arg)]
    [] op = "take" -> [m |-> Absent, ret |-> GivesOption(m)]
    [] op = "takeIf" ->
         IF m.some /\ ApplyPred(pred, m.v)
           THEN [m |-> Absent, ret |-> GivesOption(m)]
           ELSE [m |-> m, ret |-> GivesOption(Absent)]
    [] op = "replace" -> [m |-> Present(arg), ret |-> GivesOption(m)]
    [] op = "isSome" -> [m |-> m, ret |-> GivesValue(Bool(m.some))]
    [] op = "type" ->
         [m |-> m, ret |-> GivesValue(Num(IF m.some THEN OptionType_Some ELSE OptionType_None))]
    [] OTHER -> [m |-> m, ret |-> IF m.some THEN GivesValue(m.v) ELSE Fails]

\* the reference state a container is observed as, through its own queries
Abs(h, o) ==
  IF IsTrue(isSome(h, o)) THEN Present(unwrap(h, o).ret.val) ELSE Absent
\* a call's outcome, containers replaced by what they are observed as
AbsRet(h, rt) ==
  CASE rt.kind = "ref" -> GivesOption(Abs(h, rt.ref))
    [] rt.kind = "throw" -> Fails
    [] OTHER -> GivesValue(rt.val)
\* isSome, type and unwrap of the container all answer as the reference m does
ObservedAs(h, o, m) ==
  /\ AbsRet(h, isSome(h, o).ret) = RefStep("isSome", m, Undefined, "").ret
  /\ AbsRet(h, type(h, o).ret) = RefStep("type", m, Undefined, "").ret
  /\ AbsRet(h, unwrap(h, o).ret) = RefStep("unwrap", m, Undefined, "").ret

\* C28: under any finite sequence of insert, getOrInsert, getOrInsertWith,
\* take, takeIf and replace applied to one Option container, its observable
\* state (isSome, type, unwrap) and every operation's return value equal
\* those of a reference model holding one variable, Absent or Present(value),
\* however many Some-to-None and None-to-Some transitions came before.
C28_RefinesReference ==
  [][ LET ref == RefStep(last'.op, Abs(heap, x), last'.arg, last'.pred)
      IN  /\ ObservedAs(heap', x, ref.m)
          /\ AbsRet(heap', ret') = ref.ret ]_vars

C28_Witness ==
  /\ last.op = "getOrInsertWith"
  /\ last.recv = x
  /\ last.pre.cls = "None"
  /\ ret = RetVal(Num(2))
  /\ Abs(heap, x) = Present(Num(2))
  /\ heap[x].cls = "Some"
  /\ y # NoRef
  /\ y # x
  /\ heap[y] = ObjSome(Num(1))

\* C29: the Option returned by take() or takeIf() is a container distinct
\* from the receiver in every case, so a later insert / getOrInsert on the
\* receiver never changes the value returned before (the Absent returned by
\* take() on an Absent container stays Absent after the receiver is filled).
C29_TakenIsDistinct ==
  /\ [](last.op \in {"take", "takeIf"} => ret.ref # last.recv)
  /\ [][ ( /\ last.op \in {"take", "takeIf"}
           /\ last'.recv = last.recv
           /\ last'.op \in {"insert", "getOrInsert", "getOrInsertWith"} )
         => Abs(heap', ret.ref) = Abs(heap, ret.ref) ]_vars

\* the variant of an Option object
VariantOf(obj) == obj.cls

\* C30: Option.from(v) is None exactly when v is null or undefined and
\* Some(v) otherwise (also for 0, '' and false); for every Some(v),
\* flattenNullable() has the variant of Option.from(v); None.flattenNullable()
\* is None.
C30_NullableConsistent ==
  /\ last.op = "Option.from" =>
        Returned = IF last.arg \in {Undefined, Null} THEN ObjNone ELSE ObjSome(last.arg)
  /\ last.op = "flattenNullable" =>
        /\ WasSome =>
             LET f == Option_from(Live, last.pre.value)
             IN  VariantOf(Returned) = VariantOf(f.h[f.ret.ref])
        /\ WasNone => Returned = ObjNone

====
